---- MODULE Spec2Model ----
(***************************************************************************)
(* Order placement, payment initiation and the ledgers of the book store.  *)
(*                                                                         *)
(* Two generations of the server actions are modelled side by side, as the *)
(* repository holds both:                                                  *)
(*   - the discount-aware actions module (src/unnamed/part_001), whose     *)
(*     placeOrder serves both payment methods;                             *)
(*   - src/src/lib/actions.ts, whose placeOrder is COD only and whose      *)
(*     processPrepaidOrder works through a PendingOrder.                   *)
(* The stores they call (order-store, stock-store, discount-store,         *)
(* review-store, log-store, fetch-location-price) are not part of the      *)
(* sources; their operations are modelled from the specification's         *)
(* interface section.                                                      *)
(*                                                                         *)
(* Spec runs the order placement of both generations.  The other           *)
(* specifications run one part of the shop each, over the same variables:  *)
(*   SpecStock       COD orders beside the admin's stock form              *)
(*   SpecStockForm   the stock form alone                                  *)
(*   SpecGateway     payment initiation and status check                   *)
(*   SpecOperations  the public operations and how they report failure     *)
(*   SpecReviews     submitReview on an order in the store                 *)
(*   SpecStatus      the admin's status changes                            *)
(*   SpecLedger      orders with a code, createDiscount, status changes    *)
(*   SpecCodes       orders with a code while codes come and go            *)
(*   SpecPrepaid     processPrepaidOrder alone, for both variants          *)
(***************************************************************************)
EXTENDS Integers, Sequences, FiniteSets, TLC

(***************************************************************************)
(* IEEE-754 binary64 arithmetic, as far as                                 *)
(*     Math.round(originalPrice * (discount.percent / 100))                *)
(* needs it.  A positive double is [m, e]: m a sequence of MantissaBits    *)
(* bits, most significant first and leading with 1, worth m * 2^e.         *)
(***************************************************************************)
MantissaBits == 53

RECURSIVE NatBits(_)
NatBits(n) == IF n = 0 THEN << >> ELSE NatBits(n \div 2) \o << n % 2 >>

RECURSIVE BitsToNat(_)
BitsToNat(b) ==
    IF b = << >> THEN 0
    ELSE 2 * BitsToNat(SubSeq(b, 1, Len(b) - 1)) + b[Len(b)]

RECURSIVE Zeros(_)
Zeros(n) == IF n <= 0 THEN << >> ELSE << 0 >> \o Zeros(n - 1)

RECURSIVE StripLeadingZeros(_)
StripLeadingZeros(b) ==
    IF b = << >> \/ b[1] = 1 THEN b ELSE StripLeadingZeros(Tail(b))

AnyOne(b) == \E i \in 1..Len(b) : b[i] = 1

\* b + 1 on a bit sequence; the result is one bit longer when b is all ones
RECURSIVE Increment(_)
Increment(b) ==
    IF b = << >> THEN << 1 >>
    ELSE IF b[Len(b)] = 0 THEN SubSeq(b, 1, Len(b) - 1) \o << 1 >>
    ELSE Increment(SubSeq(b, 1, Len(b) - 1)) \o << 0 >>

\* the first n binary digits of r / den (0 <= r < den) after the point
RECURSIVE BinaryDigits(_, _, _)
BinaryDigits(r, den, n) ==
    IF n = 0 THEN << >>
    ELSE << (2 * r) \div den >> \o BinaryDigits((2 * r) % den, den, n - 1)

RECURSIVE RemainderAfter(_, _, _)
RemainderAfter(r, den, n) ==
    IF n = 0 \/ r = 0 THEN r ELSE RemainderAfter((2 * r) % den, den, n - 1)

\* bits (leading with 1) * 2^ex, plus a nonzero tail below the last bit when
\* sticky, rounded to the nearest double, ties to even
RoundToDouble(bits, ex, sticky) ==
    IF Len(bits) <= MantissaBits
    THEN [m |-> bits \o Zeros(MantissaBits - Len(bits)),
          e |-> ex - (MantissaBits - Len(bits))]
    ELSE LET keep  == SubSeq(bits, 1, MantissaBits)
             guard == bits[MantissaBits + 1]
             tail  == sticky \/ AnyOne(SubSeq(bits, MantissaBits + 2, Len(bits)))
             up    == guard = 1 /\ (tail \/ keep[MantissaBits] = 1)
             e0    == ex + (Len(bits) - MantissaBits)
             inc   == Increment(keep)
         IN  IF ~up THEN [m |-> keep, e |-> e0]
             ELSE IF Len(inc) = MantissaBits THEN [m |-> inc, e |-> e0]
             ELSE [m |-> SubSeq(inc, 1, MantissaBits), e |-> e0 + 1]

\* digits generated after the point by DoubleDiv: enough for a rounding
\* digit below the mantissa of any quotient >= 1/128
DivDigits == 61

\* the double nearest to num / den, for integers num >= 1, den >= 1
DoubleDiv(num, den) ==
    LET all == NatBits(num \div den) \o BinaryDigits(num % den, den, DivDigits)
    IN  RoundToDouble(StripLeadingZeros(all), 0 - DivDigits,
                      RemainderAfter(num % den, den, DivDigits) # 0)

\* bits * k for an integer k >= 1, least significant bit first with a carry
RECURSIVE MulSmall(_, _, _)
MulSmall(bits, k, carry) ==
    IF bits = << >> THEN NatBits(carry)
    ELSE LET t == bits[Len(bits)] * k + carry
         IN  IF t % 2 = 0
             THEN MulSmall(SubSeq(bits, 1, Len(bits) - 1), k, t \div 2) \o << 0 >>
             ELSE MulSmall(SubSeq(bits, 1, Len(bits) - 1), k, t \div 2) \o << 1 >>

\* the double nearest to k * d, for an integer k >= 1 (exact as a double)
DoubleMulInt(k, d) == RoundToDouble(StripLeadingZeros(MulSmall(d.m, k, 0)), d.e, FALSE)

\* Math.round of sign * d: the nearest integer, a tie going toward +infinity
MathRound(sign, d) ==
    LET f      == 0 - d.e
        padded == Zeros(f + 1 - Len(d.m)) \o d.m
        whole  == BitsToNat(SubSeq(padded, 1, Len(padded) - f))
        frac   == SubSeq(padded, Len(padded) - f + 1, Len(padded))
        half   == frac # << >> /\ frac[1] = 1
        beyond == AnyOne(Tail(frac))
    IN  IF f <= 0 THEN sign * BitsToNat(d.m \o Zeros(d.e))
        ELSE IF sign > 0 THEN whole + (IF half THEN 1 ELSE 0)
        ELSE 0 - (whole + (IF half /\ beyond THEN 1 ELSE 0))

\* Math.round(originalPrice * (percent / 100))
DiscountAmountOf(originalPrice, percent) ==
    IF originalPrice = 0 \/ percent = 0 THEN 0
    ELSE MathRound(IF originalPrice < 0 THEN -1 ELSE 1,
                   DoubleMulInt(IF originalPrice < 0 THEN 0 - originalPrice ELSE originalPrice,
                                DoubleDiv(percent, 100)))

\* num / den rounded to the nearest integer, halves up, in exact arithmetic
RoundHalfUp(num, den) == (2 * num + den) \div (2 * den)


(***************************************************************************)
(* Bounds of the model.                                                    *)
(***************************************************************************)
\* concurrent calls of the server actions
NumCalls == 2
\* largest initial stock quantity of a variant
MaxStock == 2
\* store or pricing calls that may throw during one run
MaxFaults == 1

Callers == 1..NumCalls

\* BookVariant without 'ebook': the variants the Stock Ledger keeps
Variants == {"paperback", "hardcover"}
\* discount codes: SAVE10 is in the ledger from the start, NEW29 is not
Codes == {"SAVE10", "NEW29"}
\* percents an admin may type into createDiscount
PercentInputs == {0, 29, 101}
\* what fetchLocationAndPrice may return
PriceTables == {[paperback |-> 500, hardcover |-> 750]}

NameMin == 2
PhoneMin == 10
UserIdMin == 1

\* form payloads a caller may submit: the well-formed ones, and a well-formed
\* one with a single field put out of range
WellFormed ==
    [variant       : Variants,
     nameLen       : {2},
     phoneLen      : {10},
     userId        : {"u1"},
     discountCode  : {""} \cup Codes,
     paymentMethod : {"cod", "prepaid"}]

Baseline ==
    [variant |-> "paperback", nameLen |-> 2, phoneLen |-> 10, userId |-> "u1",
     discountCode |-> "", paymentMethod |-> "cod"]

Malformed ==
    {[Baseline EXCEPT !.variant = "ebook"], [Baseline EXCEPT !.nameLen = 1],
     [Baseline EXCEPT !.phoneLen = 0], [Baseline EXCEPT !.userId = ""],
     [Baseline EXCEPT !.paymentMethod = "upi"]}

Payloads == WellFormed \cup Malformed

\* the field of a payload that is out of range, if any
MalformedField(p) ==
    IF p.variant \notin Variants THEN "variant"
    ELSE IF p.nameLen < 2 THEN "name"
    ELSE IF p.phoneLen = 0 THEN "phone"
    ELSE IF p.userId = "" THEN "userId"
    ELSE IF p.paymentMethod \notin {"cod", "prepaid"} THEN "paymentMethod"
    ELSE "none"

\* what the gateway's pay endpoint may do
GatewayOutcomes == {"redirect", "failure", "throws"}

VARIABLES
    stock,          \* Stock Ledger: variant -> quantity
    discounts,      \* Discount Ledger: code -> [exists, percent, usageCount]
    orders,         \* Order Store: the order documents
    pendingOrders,  \* Order Store: the pending orders, keyed by transaction id
    logs,           \* log-store: number of entries written
    env,            \* whether the PHONEPE_* and host variables are set
    calls,          \* the server-action calls: position, locals, result
    faults,         \* store or pricing calls that have thrown so far
    stock0,         \* the stock quantities at the start (for accounting)
    reviews,        \* Review Store: the review documents
    admin           \* the admin dashboard: the stock form and its last result

vars == << stock, discounts, orders, pendingOrders, logs, env, calls, faults, stock0, reviews, admin >>

(***************************************************************************)
(* The stores, from the specification's interface section.                 *)
(***************************************************************************)
NoDiscount == [exists |-> FALSE, percent |-> 0, usageCount |-> 0]

\* getDiscount: the ledger entry, or an entry with exists = FALSE for null
getDiscount(ledger, code) ==
    IF code \in DOMAIN ledger /\ ledger[code].exists THEN ledger[code] ELSE NoDiscount

\* incrementDiscountUsage: atomic, and a no-op on an absent code
incrementDiscountUsage(ledger, code) ==
    IF code \in DOMAIN ledger /\ ledger[code].exists
    THEN [ledger EXCEPT ![code].usageCount = @ + 1]
    ELSE ledger

\* addDiscount: fails on an existing code or a percent outside 1..100
addDiscount(ledger, code, percent) ==
    IF ledger[code].exists \/ percent < 1 \/ percent > 100
    THEN [success |-> FALSE, ledger |-> ledger]
    ELSE [success |-> TRUE,
          ledger  |-> [ledger EXCEPT ![code] =
                          [exists |-> TRUE, percent |-> percent, usageCount |-> 0]]]

\* a code taken out of the ledger (the admin deleting it in the database)
removeDiscount(ledger, code) == [ledger EXCEPT ![code] = NoDiscount]

\* decreaseStock: atomic, rejecting a decrement the quantity does not cover
decreaseStock(st, variant, quantity) ==
    IF st[variant] >= quantity
    THEN [ok |-> TRUE, stock |-> [st EXCEPT ![variant] = @ - quantity]]
    ELSE [ok |-> FALSE, stock |-> st]

\* addOrder: the document under a fresh id, status new and no review
addOrder(store, id, data) ==
    store \cup {data @@ [id |-> id, status |-> "new", hasReview |-> FALSE]}

addPendingOrder(store, txn, data) == store \cup {data @@ [txn |-> txn]}

deletePendingOrder(store, txn) == {po \in store : po.txn # txn}


\* getOrderById: whether the customer has an order under the id
getOrderById(store, userId, orderId) ==
    \E o \in store : o.userId = userId /\ o.id = orderId

\* updateOrderStatus going through when there is no such order
updateOrderStatus_Lenient(store, userId, orderId, status, hasReview) ==
    [ok     |-> TRUE,
     orders |-> {IF o.userId = userId /\ o.id = orderId
                 THEN [o EXCEPT !.status = status,
                                !.hasReview = IF hasReview THEN TRUE ELSE @]
                 ELSE o : o \in store}]

\* updateOrderStatus: sets the status, and hasReview when it is given; fails
\* when the order cannot be located for the customer
updateOrderStatus(store, userId, orderId, status, hasReview) ==
    IF ~getOrderById(store, userId, orderId)
    THEN [ok |-> FALSE, orders |-> store]
    ELSE [ok     |-> TRUE,
          orders |-> {IF o.userId = userId /\ o.id = orderId
                      THEN [o EXCEPT !.status = status,
                                     !.hasReview = IF hasReview THEN TRUE ELSE @]
                      ELSE o : o \in store}]


\* addReview: one more review document, under an id of its own
addReview(store, id, review) == store \cup {review @@ [id |-> id]}


(***************************************************************************)
(* The schemas and the pure parts of the server actions.                   *)
(***************************************************************************)
\* OrderFormSchema without the check of userId
OrderFormSchema_NoUserId(p) ==
    /\ p.variant \in {"paperback", "hardcover"}
    /\ p.nameLen >= NameMin
    /\ p.phoneLen >= PhoneMin
    /\ p.paymentMethod \in {"cod", "prepaid"}

\* OrderFormSchema.safeParse(payload).success
OrderFormSchema(p) ==
    /\ p.variant \in {"paperback", "hardcover"}
    /\ p.nameLen >= NameMin
    /\ p.phoneLen >= PhoneMin
    /\ Len(p.userId) >= UserIdMin
    /\ p.paymentMethod \in {"cod", "prepaid"}

\* OrderSchema.safeParse(data).success: the contact fields are optional here
OrderSchema(p) ==
    /\ p.variant \in {"paperback", "hardcover"}
    /\ p.nameLen >= NameMin
    /\ Len(p.userId) >= UserIdMin

\* CodOrderSchema = OrderSchema.extend({paymentMethod: z.literal('cod')})
CodOrderSchema(p) == OrderSchema(p) /\ p.paymentMethod = "cod"

\* Math.round(originalPrice * (discount.percent / 100)), worked out once for
\* the prices and percents that occur
PricesQuoted == UNION {{prices[v] : v \in Variants} : prices \in PriceTables}
PercentsStored == {10} \cup {pc \in PercentInputs : pc >= 1 /\ pc <= 100}
RoundedDiscount ==
    [originalPrice \in PricesQuoted, percent \in PercentsStored |->
        DiscountAmountOf(originalPrice, percent)]

\* ApplyDiscount reading discount.percent without the check for null
ApplyDiscount_NoNullCheck(originalPrice, discount) ==
    IF discount.exists
    THEN [ok             |-> TRUE,
          found          |-> TRUE,
          discountAmount |-> RoundedDiscount[originalPrice, discount.percent],
          finalPrice     |-> originalPrice - RoundedDiscount[originalPrice, discount.percent]]
    ELSE [ok |-> FALSE, found |-> FALSE, discountAmount |-> 0, finalPrice |-> originalPrice]

\* the discount a looked-up ledger entry gives on originalPrice
ApplyDiscount(originalPrice, discount) ==
    IF discount.exists
    THEN [ok             |-> TRUE,
          found          |-> TRUE,
          discountAmount |-> RoundedDiscount[originalPrice, discount.percent],
          finalPrice     |-> originalPrice - RoundedDiscount[originalPrice, discount.percent]]
    ELSE [ok |-> TRUE, found |-> FALSE, discountAmount |-> 0, finalPrice |-> originalPrice]

\* newOrderData leaving the code out of the document
newOrderData_NoCode(c, call) ==
    [by             |-> c,
     userId         |-> call.userId,
     paymentMethod  |-> call.paymentMethod,
     variant        |-> call.variant,
     price          |-> call.finalPrice,
     originalPrice  |-> call.originalPrice,
     discountCode   |-> "",
     discountAmount |-> call.discountAmount]

\* the order document placeOrder hands to addOrder
newOrderData(c, call) ==
    [by             |-> c,
     userId         |-> call.userId,
     paymentMethod  |-> call.paymentMethod,
     variant        |-> call.variant,
     price          |-> call.finalPrice,
     originalPrice  |-> call.originalPrice,
     discountCode   |-> call.discountCode,
     discountAmount |-> call.discountAmount]

\* IsCod sending every order down the COD branch
IsCod_Always(paymentMethod) == TRUE

\* the branch placeOrder takes after the order is stored
IsCod(paymentMethod) == paymentMethod = "cod"

\* whether the discount is looked up: if (discountCode)
HasDiscountCode(discountCode) == discountCode # ""

\* CodCountsUsage with the increment left out
CodCountsUsage_Never(discountCode) == FALSE

\* whether the COD branch calls incrementDiscountUsage: if (discountCode)
CodCountsUsage(discountCode) == discountCode # ""

\* CodDecreaseStock taking the unit whatever the quantity left
CodDecreaseStock_Unchecked(st, variant) ==
    [ok |-> TRUE, stock |-> [st EXCEPT ![variant] = @ - 1]]

\* CodDecreaseStock taking two units
CodDecreaseStock_Two(st, variant) == decreaseStock(st, variant, 2)

\* the stock after the COD branch's decreaseStock(variant, 1)
CodDecreaseStock(st, variant) == decreaseStock(st, variant, 1)

\* the order document the COD-only placeOrder hands to addOrder
LibOrderData(c, call) ==
    [by            |-> c,
     userId        |-> call.userId,
     paymentMethod |-> "cod",
     variant       |-> call.variant,
     price         |-> call.originalPrice]

\* the pending order processPrepaidOrder hands to addPendingOrder
PendingOrderData(call) ==
    [userId        |-> call.userId,
     paymentMethod |-> "prepaid",
     variant       |-> call.variant,
     price         |-> call.originalPrice]

\* the amount sent as the price itself
AmountInPaise_Rupees(price) == price

\* the amount of the gateway payload: the price in paise
AmountInPaise(price) == price * 100

\* the payload of a call that has sent nothing to the gateway
NoPayload == [merchantTransactionId |-> -1, amount |-> 0]

\* the payload processPrepaidOrder sends: its transaction id and the amount
PrepaidPayload(c, call) ==
    [merchantTransactionId |-> c, amount |-> AmountInPaise(call.originalPrice)]

\* the payload initiatePhonePePayment sends for the order placeOrder stored
PhonePePayload(c, call) ==
    [merchantTransactionId |-> c, amount |-> AmountInPaise(call.finalPrice)]

(***************************************************************************)
(* The admin dashboard's StockManager.  What the admin types is a sequence *)
(* of characters; parseInt(value, 10) reads it.                            *)
(***************************************************************************)
DigitChars == << "0", "1", "2", "3", "4", "5", "6", "7", "8", "9" >>

DigitValue(ch) == (CHOOSE i \in 1..Len(DigitChars) : DigitChars[i] = ch) - 1

IsDigit(ch) == \E i \in 1..Len(DigitChars) : DigitChars[i] = ch

RECURSIVE SkipWhiteSpace(_)
SkipWhiteSpace(chars) ==
    IF chars # << >> /\ chars[1] = " " THEN SkipWhiteSpace(Tail(chars)) ELSE chars

RECURSIVE LeadingDigits(_)
LeadingDigits(chars) ==
    IF chars = << >> \/ ~IsDigit(chars[1]) THEN << >>
    ELSE << chars[1] >> \o LeadingDigits(Tail(chars))

RECURSIVE DecimalValue(_)
DecimalValue(digits) ==
    IF digits = << >> THEN 0
    ELSE 10 * DecimalValue(SubSeq(digits, 1, Len(digits) - 1)) + DigitValue(digits[Len(digits)])

\* parseInt(value, 10): leading blanks, a sign, then the digits as far as they
\* go; NaN when there is no digit
ParseInt(chars) ==
    LET s      == SkipWhiteSpace(chars)
        signed == s # << >> /\ s[1] \in {"-", "+"}
        digits == LeadingDigits(IF signed THEN Tail(s) ELSE s)
    IN  IF digits = << >> THEN [nan |-> TRUE, value |-> 0]
        ELSE [nan   |-> FALSE,
              value |-> IF signed /\ s[1] = "-" THEN 0 - DecimalValue(digits)
                        ELSE DecimalValue(digits)]

\* AcceptsQuantity letting every number through
AcceptsQuantity_AnyNumber(quantity) == ~quantity.nan

\* handleStockChange's test: !isNaN(quantity) && quantity >= 0
AcceptsQuantity(quantity) == ~quantity.nan /\ quantity.value >= 0

\* what the admin may type into a quantity field
TypedValues ==
    {<< "-", "1" >>, << "0" >>, << " ", "2" >>, << "1", ".", "5" >>, << "a", "b" >>, << >>}

\* updateStock: the admin overwrite, rejecting negative values
updateStock(st, quantities) ==
    IF \E v \in DOMAIN quantities : quantities[v] < 0
    THEN [ok |-> FALSE, stock |-> st]
    ELSE [ok |-> TRUE, stock |-> quantities]

\* the dashboard before the stock has loaded and before any action
AdminIdle ==
    [loaded |-> FALSE, draft |-> [v \in Variants |-> 0], typed |-> << >>,
     saved |-> FALSE, op |-> "none", success |-> FALSE, kind |-> "none"]

\* what the status endpoint may do
StatusOutcomes == {"paid", "failure", "throws"}

\* StatusCheckResult without the catch around fetch and response.json()
StatusCheckResult_NoCatch(outcome) ==
    IF outcome = "throws" THEN [success |-> FALSE, kind |-> "raised"]
    ELSE IF outcome = "failure" THEN [success |-> FALSE, kind |-> "gateway"]
    ELSE [success |-> TRUE, kind |-> "ok"]

\* what checkPhonePeStatus returns: the provider's payload as it is, or the
\* caught error as {success: false, message}
StatusCheckResult(outcome) ==
    IF outcome = "throws" THEN [success |-> FALSE, kind |-> "network"]
    ELSE IF outcome = "failure" THEN [success |-> FALSE, kind |-> "gateway"]
    ELSE [success |-> TRUE, kind |-> "ok"]

\* StatusToWrite dropping the argument
StatusToWrite_AlwaysNew(status) == "new"

\* the status changeOrderStatus hands to updateOrderStatus: the requested one
StatusToWrite(status) == status

\* the statuses of an order
Statuses == {"new", "dispatched", "delivered", "cancelled"}

RatingMin == 1
RatingMax == 5

\* ReviewSchema.parse(data) going through
ReviewSchema(data) == data.rating >= RatingMin /\ data.rating <= RatingMax

\* the review document submitReview hands to addReview
reviewData(call) == [orderId |-> call.orderId, userId |-> call.userId, rating |-> call.rating]

\* ReviewedStatus handing over the status of a fresh order
ReviewedStatus_New == "new"

\* the status submitReview hands to updateOrderStatus, whatever the current one
ReviewedStatus == "delivered"

\* the customers and order ids an operation may name
UserIds == {"u1", "u2"}
OrderIds == Callers \cup {0}

\* what a customer may submit as a review: for an order of theirs, for an id
\* no order has, for another customer's order, and with a rating out of range
ReviewInputs ==
    {[orderId |-> 0, userId |-> "u1", rating |-> 4],
     [orderId |-> 1, userId |-> "u1", rating |-> 4],
     [orderId |-> 0, userId |-> "u2", rating |-> 4],
     [orderId |-> 0, userId |-> "u1", rating |-> 0]}

(***************************************************************************)
(* Calls.  A call is idle, then at the await its pc names, then done.      *)
(***************************************************************************)
IdleCall ==
    [op |-> "none", pc |-> "idle", valid |-> FALSE, malformed |-> "none", userId |-> "",
     variant |-> "none", discountCode |-> "", paymentMethod |-> "none",
     originalPrice |-> 0, discountAmount |-> 0, finalPrice |-> 0,
     found |-> FALSE, success |-> FALSE, kind |-> "none", effects |-> {},
     orderId |-> -1, rating |-> 0, payload |-> NoPayload]

\* the call as it returns: the result, and the locals gone
Returned(call, success, kind, used) ==
    [call EXCEPT !.pc = "done", !.success = success, !.kind = kind,
                 !.effects = @ \cup used,
                 !.originalPrice = 0, !.discountAmount = 0, !.finalPrice = 0]

\* the call as it starts on a payload that passed its schema
Started(op, p, method, code, price, next, used) ==
    [IdleCall EXCEPT !.op = op, !.pc = next, !.valid = TRUE,
                     !.malformed = MalformedField(p), !.userId = p.userId,
                     !.variant = p.variant, !.discountCode = code,
                     !.paymentMethod = method, !.originalPrice = price,
                     !.finalPrice = price, !.effects = used]

\* the call as it returns the generic validation message
Rejected(op, p, used) ==
    [IdleCall EXCEPT !.op = op, !.pc = "done", !.kind = "validation",
                     !.malformed = MalformedField(p), !.effects = used]

\* the call of a one-step operation as it returns, or raises (kind raised)
Answered(op, success, kind, used) ==
    [IdleCall EXCEPT !.op = op, !.pc = "done", !.success = success, !.kind = kind,
                     !.effects = used]

\* the call of submitReview as it goes on after parse (and the order lookup)
Reviewing(op, data, used) ==
    [IdleCall EXCEPT !.op = op, !.pc = "addReview", !.valid = TRUE, !.userId = data.userId,
                     !.orderId = data.orderId, !.rating = data.rating, !.effects = used]

\* the call of submitReview as it returns from its catch
ReviewFailed(op, data, kind, used) ==
    [IdleCall EXCEPT !.op = op, !.pc = "done", !.kind = kind, !.userId = data.userId,
                     !.orderId = data.orderId, !.rating = data.rating, !.effects = used]

Throws(fault) ==
    /\ fault => faults < MaxFaults
    /\ faults' = IF fault THEN faults + 1 ELSE faults

Init ==
    /\ stock \in {[paperback |-> q, hardcover |-> MaxStock] : q \in 0..MaxStock}
    /\ stock0 = stock
    /\ discounts = [code \in Codes |->
                       IF code = "SAVE10"
                       THEN [exists |-> TRUE, percent |-> 10, usageCount |-> 0]
                       ELSE NoDiscount]
    /\ orders = {}
    /\ pendingOrders = {}
    /\ logs = 0
    /\ env \in BOOLEAN
    /\ calls = [c \in Callers |-> IdleCall]
    /\ faults = 0
    /\ reviews = {}
    /\ admin = AdminIdle

(***************************************************************************)
(* placeOrder of the discount-aware actions module.                        *)
(***************************************************************************)
\* addLog, safeParse, and for a valid payload fetchLocationAndPrice
placeOrder_begin(c, p, prices, fault) ==
    /\ calls[c].pc = "idle"
    /\ Throws(fault)
    /\ IF ~OrderFormSchema(p)
       THEN /\ ~fault
            /\ calls' = [calls EXCEPT ![c] = Rejected("placeOrder", p, {"log"})]
            /\ logs' = logs + 2
       ELSE IF fault
       THEN /\ calls' = [calls EXCEPT ![c] =
                            Returned(Started("placeOrder", p, p.paymentMethod,
                                             p.discountCode, 0, "done", {"log", "pricing"}),
                                     FALSE, "fault", {})]
            /\ logs' = logs + 2
       ELSE /\ calls' = [calls EXCEPT ![c] =
                            Started("placeOrder", p, p.paymentMethod, p.discountCode,
                                    prices[p.variant],
                                    IF HasDiscountCode(p.discountCode)
                                    THEN "getDiscount" ELSE "addOrder",
                                    {"log", "pricing"})]
            /\ logs' = logs + 1
    /\ UNCHANGED << stock, discounts, orders, pendingOrders, env, stock0, reviews, admin >>

\* await getDiscount(discountCode), then the discount arithmetic
placeOrder_getDiscount(c, fault) ==
    LET call == calls[c]
        r    == ApplyDiscount(call.originalPrice, getDiscount(discounts, call.discountCode))
    IN  /\ call.op = "placeOrder" /\ call.pc = "getDiscount"
        /\ Throws(fault)
        /\ IF fault \/ ~r.ok
           THEN /\ calls' = [calls EXCEPT ![c] =
                                Returned(call, FALSE, IF fault THEN "fault" ELSE "discount",
                                         {"discount"})]
                /\ logs' = logs + 1
           ELSE /\ calls' = [calls EXCEPT ![c] =
                                [call EXCEPT !.pc = "addOrder", !.found = r.found,
                                             !.discountAmount = r.discountAmount,
                                             !.finalPrice = r.finalPrice,
                                             !.effects = @ \cup {"discount"}]]
                /\ logs' = logs
        /\ UNCHANGED << stock, discounts, orders, pendingOrders, env, stock0, reviews, admin >>

\* await addOrder(newOrderData), with the log lines around it
placeOrder_addOrder(c, fault) ==
    LET call == calls[c]
    IN  /\ call.op = "placeOrder" /\ call.pc = "addOrder"
        /\ Throws(fault)
        /\ logs' = logs + 2
        /\ IF fault
           THEN /\ calls' = [calls EXCEPT ![c] = Returned(call, FALSE, "fault", {"order"})]
                /\ orders' = orders
           ELSE /\ orders' = addOrder(orders, c, newOrderData(c, call))
                /\ calls' = [calls EXCEPT ![c] =
                                [call EXCEPT !.pc = IF IsCod(call.paymentMethod)
                                                    THEN "decreaseStock"
                                                    ELSE "initiatePhonePePayment",
                                             !.effects = @ \cup {"order"}]]
        /\ UNCHANGED << stock, discounts, pendingOrders, env, stock0, reviews, admin >>

\* await decreaseStock(variant, 1) on the COD branch
placeOrder_decreaseStock(c, fault) ==
    LET call == calls[c]
        r    == CodDecreaseStock(stock, call.variant)
    IN  /\ call.op = "placeOrder" /\ call.pc = "decreaseStock"
        /\ Throws(fault)
        /\ IF fault \/ ~r.ok
           THEN /\ calls' = [calls EXCEPT ![c] =
                                Returned(call, FALSE, IF fault THEN "fault" ELSE "stock",
                                         {"stock"})]
                /\ stock' = stock
                /\ logs' = logs + 1
           ELSE /\ stock' = r.stock
                /\ logs' = logs
                /\ calls' = [calls EXCEPT ![c] =
                                IF CodCountsUsage(call.discountCode)
                                THEN [call EXCEPT !.pc = "incrementDiscountUsage",
                                                  !.effects = @ \cup {"stock"}]
                                ELSE Returned(call, TRUE, "ok", {"stock"})]
        /\ UNCHANGED << discounts, orders, pendingOrders, env, stock0, reviews, admin >>

\* await incrementDiscountUsage(discountCode), then the success result
placeOrder_incrementDiscountUsage(c, fault) ==
    LET call == calls[c]
    IN  /\ call.op = "placeOrder" /\ call.pc = "incrementDiscountUsage"
        /\ Throws(fault)
        /\ IF fault
           THEN /\ calls' = [calls EXCEPT ![c] = Returned(call, FALSE, "fault", {"usage"})]
                /\ discounts' = discounts
                /\ logs' = logs + 1
           ELSE /\ discounts' = incrementDiscountUsage(discounts, call.discountCode)
                /\ calls' = [calls EXCEPT ![c] = Returned(call, TRUE, "ok", {"usage"})]
                /\ logs' = logs
        /\ UNCHANGED << stock, orders, pendingOrders, env, stock0, reviews, admin >>


\* initiatePhonePePayment(newOrder) and what placeOrder makes of its answer
initiatePhonePePayment(c, outcome) ==
    LET call == calls[c]
    IN  /\ call.op = "placeOrder" /\ call.pc = "initiatePhonePePayment"
        /\ IF ~env
           THEN \* the configuration check throws into placeOrder's catch
                /\ outcome = "throws"
                /\ calls' = [calls EXCEPT ![c] = Returned(call, FALSE, "config", {})]
                /\ logs' = logs + 1
           ELSE IF outcome = "redirect"
           THEN /\ calls' = [calls EXCEPT ![c] =
                                Returned([call EXCEPT !.payload = PhonePePayload(c, call)],
                                         TRUE, "redirect", {"gateway"})]
                /\ logs' = logs + 2
           ELSE /\ calls' = [calls EXCEPT ![c] =
                                Returned([call EXCEPT !.payload = PhonePePayload(c, call)],
                                         FALSE,
                                         IF outcome = "failure" THEN "gateway" ELSE "network",
                                         {"gateway"})]
                /\ logs' = logs + 3
        /\ UNCHANGED << stock, discounts, orders, pendingOrders, env, faults, stock0, reviews, admin >>

(***************************************************************************)
(* placeOrder of src/lib/actions.ts: COD only, stock first, no discounts.  *)
(***************************************************************************)
LibPlaceOrder_begin(c, p, prices, fault) ==
    /\ calls[c].pc = "idle"
    /\ Throws(fault)
    /\ IF ~CodOrderSchema(p)
       THEN /\ ~fault
            /\ calls' = [calls EXCEPT ![c] = Rejected("libPlaceOrder", p, {})]
       ELSE IF fault
       THEN calls' = [calls EXCEPT ![c] =
                         Returned(Started("libPlaceOrder", p, "cod", "", 0, "done", {"pricing"}),
                                  FALSE, "fault", {})]
       ELSE calls' = [calls EXCEPT ![c] =
                         Started("libPlaceOrder", p, "cod", "", prices[p.variant],
                                 "decreaseStock", {"pricing"})]
    /\ UNCHANGED << stock, discounts, orders, pendingOrders, logs, env, stock0, reviews, admin >>

LibPlaceOrder_decreaseStock(c, fault) ==
    LET call == calls[c]
        r    == decreaseStock(stock, call.variant, 1)
    IN  /\ call.op = "libPlaceOrder" /\ call.pc = "decreaseStock"
        /\ Throws(fault)
        /\ IF fault \/ ~r.ok
           THEN /\ calls' = [calls EXCEPT ![c] =
                                Returned(call, FALSE, IF fault THEN "fault" ELSE "stock",
                                         {"stock"})]
                /\ stock' = stock
           ELSE /\ stock' = r.stock
                /\ calls' = [calls EXCEPT ![c] =
                                [call EXCEPT !.pc = "addOrder", !.effects = @ \cup {"stock"}]]
        /\ UNCHANGED << discounts, orders, pendingOrders, logs, env, stock0, reviews, admin >>

LibPlaceOrder_addOrder(c, fault) ==
    LET call == calls[c]
    IN  /\ call.op = "libPlaceOrder" /\ call.pc = "addOrder"
        /\ Throws(fault)
        /\ IF fault
           THEN /\ calls' = [calls EXCEPT ![c] = Returned(call, FALSE, "fault", {"order"})]
                /\ orders' = orders
           ELSE /\ orders' = addOrder(orders, c, LibOrderData(c, call))
                /\ calls' = [calls EXCEPT ![c] = Returned(call, TRUE, "ok", {"order"})]
        /\ UNCHANGED << stock, discounts, pendingOrders, logs, env, stock0, reviews, admin >>

(***************************************************************************)
(* processPrepaidOrder of src/lib/actions.ts.  The transaction id is       *)
(* unique to the call, so the call's own id stands for it.                 *)
(***************************************************************************)
processPrepaidOrder_begin(c, p, prices, fault) ==
    /\ calls[c].pc = "idle"
    /\ Throws(fault)
    /\ IF ~OrderSchema(p)
       THEN /\ ~fault
            /\ calls' = [calls EXCEPT ![c] = Rejected("processPrepaidOrder", p, {})]
       ELSE IF fault
       THEN calls' = [calls EXCEPT ![c] =
                         Returned(Started("processPrepaidOrder", p, "prepaid", "", 0, "done",
                                          {"pricing"}),
                                  FALSE, "fault", {})]
       ELSE calls' = [calls EXCEPT ![c] =
                         Started("processPrepaidOrder", p, "prepaid", "", prices[p.variant],
                                 "addPendingOrder", {"pricing"})]
    /\ UNCHANGED << stock, discounts, orders, pendingOrders, logs, env, stock0, reviews, admin >>

processPrepaidOrder_addPendingOrder(c, fault) ==
    LET call == calls[c]
    IN  /\ call.op = "processPrepaidOrder" /\ call.pc = "addPendingOrder"
        /\ Throws(fault)
        /\ IF fault
           THEN /\ calls' = [calls EXCEPT ![c] = Returned(call, FALSE, "fault", {"pending"})]
                /\ pendingOrders' = pendingOrders
           ELSE /\ pendingOrders' = addPendingOrder(pendingOrders, c, PendingOrderData(call))
                /\ calls' = [calls EXCEPT ![c] =
                                [call EXCEPT !.pc = "fetch", !.effects = @ \cup {"pending"}]]
        /\ UNCHANGED << stock, discounts, orders, logs, env, stock0, reviews, admin >>

\* await fetch(...) with the payload, and await response.json()
processPrepaidOrder_fetch(c, outcome) ==
    LET call == [calls[c] EXCEPT !.payload = PrepaidPayload(c, calls[c])]
    IN  /\ call.op = "processPrepaidOrder" /\ call.pc = "fetch"
        /\ calls' = [calls EXCEPT ![c] =
                        IF outcome = "redirect" THEN Returned(call, TRUE, "redirect", {"gateway"})
                        ELSE IF outcome = "failure"
                        THEN [call EXCEPT !.pc = "deletePendingOrder",
                                          !.effects = @ \cup {"gateway"}]
                        ELSE Returned(call, FALSE, "network", {"gateway"})]
        /\ UNCHANGED << stock, discounts, orders, pendingOrders, logs, env, faults, stock0, reviews, admin >>

\* await deletePendingOrder(merchantTransactionId), then the throw
processPrepaidOrder_deletePendingOrder(c, fault) ==
    LET call == calls[c]
    IN  /\ call.op = "processPrepaidOrder" /\ call.pc = "deletePendingOrder"
        /\ Throws(fault)
        /\ pendingOrders' = IF fault THEN pendingOrders
                            ELSE deletePendingOrder(pendingOrders, c)
        /\ calls' = [calls EXCEPT ![c] =
                        Returned(call, FALSE, IF fault THEN "fault" ELSE "gateway", {"pending"})]
        /\ UNCHANGED << stock, discounts, orders, logs, env, stock0, reviews, admin >>

(***************************************************************************)
(* The admin's createDiscount.                                             *)
(***************************************************************************)
createDiscount(code, percent) ==
    /\ addDiscount(discounts, code, percent).success
    /\ discounts' = addDiscount(discounts, code, percent).ledger
    /\ UNCHANGED << stock, orders, pendingOrders, logs, env, calls, faults, stock0, reviews, admin >>

(***************************************************************************)
(* StockManager of the admin dashboard.                                    *)
(***************************************************************************)
\* useEffect: getStock() into the form's state
loadStock ==
    /\ admin' = [admin EXCEPT !.loaded = TRUE, !.draft = stock]
    /\ UNCHANGED << stock, discounts, orders, pendingOrders, logs, env, calls, faults,
                    stock0, reviews >>

handleStockChange(variant, value) ==
    /\ admin.loaded
    /\ admin' = IF AcceptsQuantity(ParseInt(value))
                THEN [admin EXCEPT !.draft[variant] = ParseInt(value).value,
                                   !.typed = value]
                ELSE [admin EXCEPT !.typed = value]
    /\ UNCHANGED << stock, discounts, orders, pendingOrders, logs, env, calls, faults,
                    stock0, reviews >>

\* Save Stock: updateStock(stock) with the form's state
handleSave ==
    /\ admin.loaded
    /\ stock' = updateStock(stock, admin.draft).stock
    /\ admin' = [admin EXCEPT !.saved = TRUE, !.op = "updateStock",
                              !.success = updateStock(stock, admin.draft).ok,
                              !.kind = IF updateStock(stock, admin.draft).ok
                                       THEN "ok" ELSE "fault"]
    /\ UNCHANGED << discounts, orders, pendingOrders, logs, env, calls, faults,
                    stock0, reviews >>

(***************************************************************************)
(* The one-step operations of the discount-aware actions module and of     *)
(* src/lib/actions.ts.                                                     *)
(***************************************************************************)
\* checkPhonePeStatus: the configuration check, which throws, then the GET
checkPhonePeStatus(c, outcome) ==
    /\ calls[c].pc = "idle"
    /\ IF ~env
       THEN /\ outcome = "throws"
            /\ calls' = [calls EXCEPT ![c] =
                            Answered("checkPhonePeStatus", FALSE, "raised", {})]
            /\ logs' = logs
       ELSE /\ calls' = [calls EXCEPT ![c] =
                            Answered("checkPhonePeStatus", StatusCheckResult(outcome).success,
                                     StatusCheckResult(outcome).kind, {"gateway"})]
            /\ logs' = IF outcome = "throws" THEN logs + 1 ELSE logs
    /\ UNCHANGED << stock, discounts, orders, pendingOrders, env, faults, stock0, reviews,
                    admin >>

\* changeOrderStatusAction: return await updateOrderStatus(...), uncaught
changeOrderStatusAction(userId, orderId, status, fault) ==
    LET r == updateOrderStatus(orders, userId, orderId, StatusToWrite(status), FALSE)
    IN  /\ Throws(fault)
        /\ orders' = IF fault THEN orders ELSE r.orders
        /\ admin' = [admin EXCEPT !.op = "changeOrderStatusAction",
                                  !.success = ~fault /\ r.ok,
                                  !.kind = IF fault \/ ~r.ok THEN "raised" ELSE "ok"]
        /\ UNCHANGED << stock, discounts, pendingOrders, logs, env, calls, stock0, reviews >>

\* changeOrderStatus of src/lib/actions.ts: updateOrderStatus inside try
changeOrderStatus(userId, orderId, status, fault) ==
    LET r == updateOrderStatus(orders, userId, orderId, StatusToWrite(status), FALSE)
    IN  /\ Throws(fault)
        /\ orders' = IF fault THEN orders ELSE r.orders
        /\ admin' = [admin EXCEPT !.op = "changeOrderStatus",
                                  !.success = ~fault /\ r.ok,
                                  !.kind = IF fault THEN "fault"
                                           ELSE IF ~r.ok THEN "notfound" ELSE "ok"]
        /\ UNCHANGED << stock, discounts, pendingOrders, logs, env, calls, stock0, reviews >>

\* validateDiscountCode: getDiscount is awaited outside any try
validateDiscountCode(c, code, fault) ==
    /\ calls[c].pc = "idle"
    /\ Throws(fault)
    /\ code = "" => ~fault
    /\ calls' = [calls EXCEPT ![c] =
                    IF code = "" THEN Answered("validateDiscountCode", FALSE, "validation", {})
                    ELSE IF fault THEN Answered("validateDiscountCode", FALSE, "raised",
                                                {"discount"})
                    ELSE IF getDiscount(discounts, code).exists
                    THEN Answered("validateDiscountCode", TRUE, "ok", {"discount"})
                    ELSE Answered("validateDiscountCode", FALSE, "notfound", {"discount"})]
    /\ UNCHANGED << stock, discounts, orders, pendingOrders, logs, env, stock0, reviews,
                    admin >>

\* fetchOrdersAction, fetchUserOrdersAction, fetchReviews and the fetch*
\* actions of src/lib/actions.ts: return await <the store's read>, uncaught
fetchOrdersAction(c, fault) ==
    /\ calls[c].pc = "idle"
    /\ Throws(fault)
    /\ calls' = [calls EXCEPT ![c] =
                    IF fault THEN Answered("fetchOrdersAction", FALSE, "raised", {"order"})
                    ELSE Answered("fetchOrdersAction", TRUE, "ok", {"order"})]
    /\ UNCHANGED << stock, discounts, orders, pendingOrders, logs, env, stock0, reviews,
                    admin >>

(***************************************************************************)
(* submitReview of the discount-aware actions module: the order is looked  *)
(* up first.                                                               *)
(***************************************************************************)
submitReview_begin(c, data, fault) ==
    /\ calls[c].pc = "idle"
    /\ Throws(fault)
    /\ ~ReviewSchema(data) => ~fault
    /\ calls' = [calls EXCEPT ![c] =
                    IF ~ReviewSchema(data)
                    THEN ReviewFailed("submitReview", data, "validation", {"log"})
                    ELSE IF fault
                    THEN ReviewFailed("submitReview", data, "fault", {"log", "order"})
                    ELSE IF ~getOrderById(orders, data.userId, data.orderId)
                    THEN ReviewFailed("submitReview", data, "notfound", {"log", "order"})
                    ELSE Reviewing("submitReview", data, {"order"})]
    /\ logs' = IF ReviewSchema(data) /\ ~fault
                  /\ getOrderById(orders, data.userId, data.orderId)
               THEN logs ELSE logs + 1
    /\ UNCHANGED << stock, discounts, orders, pendingOrders, env, stock0, reviews, admin >>

submitReview_addReview(c, fault) ==
    LET call == calls[c]
    IN  /\ call.op = "submitReview" /\ call.pc = "addReview"
        /\ Throws(fault)
        /\ IF fault
           THEN /\ calls' = [calls EXCEPT ![c] = Returned(call, FALSE, "fault", {"review", "log"})]
                /\ reviews' = reviews
                /\ logs' = logs + 1
           ELSE /\ reviews' = addReview(reviews, c, reviewData(call))
                /\ calls' = [calls EXCEPT ![c] =
                                [call EXCEPT !.pc = "updateOrderStatus",
                                             !.effects = @ \cup {"review"}]]
                /\ logs' = logs
        /\ UNCHANGED << stock, discounts, orders, pendingOrders, env, stock0, admin >>

submitReview_updateOrderStatus(c, fault) ==
    LET call == calls[c]
        r    == updateOrderStatus(orders, call.userId, call.orderId,
                                  ReviewedStatus, TRUE)
    IN  /\ call.op = "submitReview" /\ call.pc = "updateOrderStatus"
        /\ Throws(fault)
        /\ IF fault \/ ~r.ok
           THEN /\ calls' = [calls EXCEPT ![c] =
                                Returned(call, FALSE, IF fault THEN "fault" ELSE "notfound",
                                         {"status", "log"})]
                /\ orders' = orders
                /\ logs' = logs + 1
           ELSE /\ orders' = r.orders
                /\ calls' = [calls EXCEPT ![c] = Returned(call, TRUE, "ok", {"status"})]
                /\ logs' = logs
        /\ UNCHANGED << stock, discounts, pendingOrders, env, stock0, reviews, admin >>

(***************************************************************************)
(* submitReview of src/lib/actions.ts: no lookup of the order.             *)
(***************************************************************************)
LibSubmitReview_begin(c, data) ==
    /\ calls[c].pc = "idle"
    /\ calls' = [calls EXCEPT ![c] =
                    IF ~ReviewSchema(data)
                    THEN ReviewFailed("libSubmitReview", data, "validation", {})
                    ELSE Reviewing("libSubmitReview", data, {})]
    /\ UNCHANGED << stock, discounts, orders, pendingOrders, logs, env, faults, stock0,
                    reviews, admin >>

LibSubmitReview_addReview(c, fault) ==
    LET call == calls[c]
    IN  /\ call.op = "libSubmitReview" /\ call.pc = "addReview"
        /\ Throws(fault)
        /\ IF fault
           THEN /\ calls' = [calls EXCEPT ![c] = Returned(call, FALSE, "fault", {"review"})]
                /\ reviews' = reviews
           ELSE /\ reviews' = addReview(reviews, c, reviewData(call))
                /\ calls' = [calls EXCEPT ![c] =
                                [call EXCEPT !.pc = "updateOrderStatus",
                                             !.effects = @ \cup {"review"}]]
        /\ UNCHANGED << stock, discounts, orders, pendingOrders, logs, env, stock0, admin >>

LibSubmitReview_updateOrderStatus(c, fault) ==
    LET call == calls[c]
        r    == updateOrderStatus(orders, call.userId, call.orderId,
                                  ReviewedStatus, TRUE)
    IN  /\ call.op = "libSubmitReview" /\ call.pc = "updateOrderStatus"
        /\ Throws(fault)
        /\ IF fault \/ ~r.ok
           THEN /\ calls' = [calls EXCEPT ![c] =
                                Returned(call, FALSE, IF fault THEN "fault" ELSE "notfound",
                                         {"status"})]
                /\ orders' = orders
           ELSE /\ orders' = r.orders
                /\ calls' = [calls EXCEPT ![c] = Returned(call, TRUE, "ok", {"status"})]
        /\ UNCHANGED << stock, discounts, pendingOrders, logs, env, stock0, reviews, admin >>

(***************************************************************************)
(* A discount code deleted from the ledger.  The actions have no operation *)
(* for it; the data model speaks of codes deleted after use.               *)
(***************************************************************************)
deleteDiscount(code) ==
    /\ discounts[code].exists
    /\ discounts' = removeDiscount(discounts, code)
    /\ UNCHANGED << stock, orders, pendingOrders, logs, env, calls, faults, stock0, reviews,
                    admin >>

Next ==
    \/ \E c \in Callers, p \in Payloads, prices \in PriceTables, fault \in BOOLEAN :
          placeOrder_begin(c, p, prices, fault)
    \/ \E c \in Callers, fault \in BOOLEAN : placeOrder_getDiscount(c, fault)
    \/ \E c \in Callers, fault \in BOOLEAN : placeOrder_addOrder(c, fault)
    \/ \E c \in Callers, fault \in BOOLEAN : placeOrder_decreaseStock(c, fault)
    \/ \E c \in Callers, fault \in BOOLEAN : placeOrder_incrementDiscountUsage(c, fault)
    \/ \E c \in Callers, outcome \in GatewayOutcomes : initiatePhonePePayment(c, outcome)
    \/ \E c \in Callers, p \in Payloads, prices \in PriceTables, fault \in BOOLEAN :
          LibPlaceOrder_begin(c, p, prices, fault)
    \/ \E c \in Callers, fault \in BOOLEAN : LibPlaceOrder_decreaseStock(c, fault)
    \/ \E c \in Callers, fault \in BOOLEAN : LibPlaceOrder_addOrder(c, fault)
    \/ \E c \in Callers, p \in Payloads, prices \in PriceTables, fault \in BOOLEAN :
          processPrepaidOrder_begin(c, p, prices, fault)
    \/ \E c \in Callers, fault \in BOOLEAN : processPrepaidOrder_addPendingOrder(c, fault)
    \/ \E c \in Callers, outcome \in GatewayOutcomes : processPrepaidOrder_fetch(c, outcome)
    \/ \E c \in Callers, fault \in BOOLEAN : processPrepaidOrder_deletePendingOrder(c, fault)
    \/ \E code \in Codes, percent \in PercentInputs : createDiscount(code, percent)

Spec == Init /\ [][Next]_vars


(***************************************************************************)
(* The Stock Ledger between COD orders and the admin's stock form.         *)
(***************************************************************************)
\* COD paperback orders without a discount code
CodPayloads ==
    {p \in WellFormed : p.paymentMethod = "cod" /\ p.discountCode = ""
                        /\ p.variant = "paperback"}

\* what the admin types while orders come in
TypedWhileSelling == {<< "-", "1" >>, << "0" >>, << "1", ".", "5" >>}

InitStock ==
    /\ stock \in {[paperback |-> q, hardcover |-> MaxStock] : q \in 0..MaxStock}
    /\ stock0 = stock
    /\ discounts = [code \in Codes |->
                       IF code = "SAVE10"
                       THEN [exists |-> TRUE, percent |-> 10, usageCount |-> 0]
                       ELSE NoDiscount]
    /\ orders = {}
    /\ pendingOrders = {}
    /\ logs = 0
    /\ env = TRUE
    /\ calls = [c \in Callers |-> IdleCall]
    /\ faults = 0
    /\ reviews = {}
    /\ admin = AdminIdle

NextStock ==
    \/ \E c \in Callers, p \in CodPayloads, prices \in PriceTables :
          placeOrder_begin(c, p, prices, FALSE)
    \/ \E c \in Callers : placeOrder_addOrder(c, FALSE)
    \/ \E c \in Callers : placeOrder_decreaseStock(c, FALSE)
    \/ \E c \in Callers, p \in CodPayloads, prices \in PriceTables :
          LibPlaceOrder_begin(c, p, prices, FALSE)
    \/ \E c \in Callers : LibPlaceOrder_decreaseStock(c, FALSE)
    \/ \E c \in Callers : LibPlaceOrder_addOrder(c, FALSE)
    \/ loadStock
    \/ \E variant \in Variants, value \in TypedWhileSelling :
          handleStockChange(variant, value)
    \/ handleSave

SpecStock == InitStock /\ [][NextStock]_vars

\* the stock form alone, with everything the admin may type
InitStockForm ==
    /\ stock \in [Variants -> 0..MaxStock]
    /\ stock0 = stock
    /\ discounts = [code \in Codes |-> NoDiscount]
    /\ orders = {}
    /\ pendingOrders = {}
    /\ logs = 0
    /\ env = TRUE
    /\ calls = [c \in Callers |-> IdleCall]
    /\ faults = 0
    /\ reviews = {}
    /\ admin = AdminIdle

NextStockForm ==
    \/ loadStock
    \/ \E variant \in Variants, value \in TypedValues : handleStockChange(variant, value)
    \/ handleSave

SpecStockForm == InitStockForm /\ [][NextStockForm]_vars


(***************************************************************************)
(* The Payment Gateway Adapter: initiation and status check.               *)
(***************************************************************************)
\* prepaid paperback orders without a discount code
PrepaidPayloads ==
    {p \in WellFormed : p.paymentMethod = "prepaid" /\ p.discountCode = ""
                        /\ p.variant = "paperback"}

InitGateway ==
    /\ stock = [v \in Variants |-> MaxStock]
    /\ stock0 = stock
    /\ discounts = [code \in Codes |->
                       IF code = "SAVE10"
                       THEN [exists |-> TRUE, percent |-> 10, usageCount |-> 0]
                       ELSE NoDiscount]
    /\ orders = {}
    /\ pendingOrders = {}
    /\ logs = 0
    /\ env \in BOOLEAN
    /\ calls = [c \in Callers |-> IdleCall]
    /\ faults = 0
    /\ reviews = {}
    /\ admin = AdminIdle

NextGateway ==
    \/ \E c \in Callers, p \in PrepaidPayloads, prices \in PriceTables, fault \in BOOLEAN :
          placeOrder_begin(c, p, prices, fault)
    \/ \E c \in Callers, fault \in BOOLEAN : placeOrder_addOrder(c, fault)
    \/ \E c \in Callers, outcome \in GatewayOutcomes : initiatePhonePePayment(c, outcome)
    \/ \E c \in Callers, p \in PrepaidPayloads, prices \in PriceTables, fault \in BOOLEAN :
          processPrepaidOrder_begin(c, p, prices, fault)
    \/ \E c \in Callers, fault \in BOOLEAN : processPrepaidOrder_addPendingOrder(c, fault)
    \/ \E c \in Callers, outcome \in GatewayOutcomes : processPrepaidOrder_fetch(c, outcome)
    \/ \E c \in Callers, fault \in BOOLEAN : processPrepaidOrder_deletePendingOrder(c, fault)
    \/ \E c \in Callers, outcome \in StatusOutcomes : checkPhonePeStatus(c, outcome)

SpecGateway == InitGateway /\ [][NextGateway]_vars

(***************************************************************************)
(* The public operations and how they report a failure.                    *)
(***************************************************************************)
NextOperations ==
    \/ NextGateway
    \/ \E userId \in UserIds, orderId \in OrderIds, status \in {"dispatched", "cancelled"},
          fault \in BOOLEAN : changeOrderStatusAction(userId, orderId, status, fault)
    \/ \E userId \in UserIds, orderId \in OrderIds, status \in {"dispatched", "cancelled"},
          fault \in BOOLEAN : changeOrderStatus(userId, orderId, status, fault)
    \/ \E c \in Callers, code \in {""} \cup Codes, fault \in BOOLEAN :
          validateDiscountCode(c, code, fault)
    \/ \E c \in Callers, fault \in BOOLEAN : fetchOrdersAction(c, fault)

SpecOperations == InitGateway /\ [][NextOperations]_vars


(***************************************************************************)
(* Reviews of an order that is already in the Order Store.                 *)
(***************************************************************************)
\* an order as placeOrder stored it
PlacedOrderOf(id, userId) ==
    CHOOSE o \in addOrder({}, id,
                          [by |-> 0, userId |-> userId, paymentMethod |-> "cod",
                           variant |-> "paperback", price |-> 500, originalPrice |-> 500,
                           discountCode |-> "", discountAmount |-> 0]) : TRUE

\* the order with id 0, of customer u1
PlacedOrder == PlacedOrderOf(0, "u1")

\* the Order Store holds the order, at any status the admin may have given it
InitReviews ==
    /\ stock = [v \in Variants |-> MaxStock]
    /\ stock0 = stock
    /\ discounts = [code \in Codes |-> NoDiscount]
    /\ orders \in {{[PlacedOrder EXCEPT !.status = status]} : status \in Statuses}
    /\ pendingOrders = {}
    /\ logs = 0
    /\ env = TRUE
    /\ calls = [c \in Callers |-> IdleCall]
    /\ faults = 0
    /\ reviews = {}
    /\ admin = AdminIdle

NextReviews ==
    \/ \E c \in Callers, data \in ReviewInputs, fault \in BOOLEAN :
          submitReview_begin(c, data, fault)
    \/ \E c \in Callers, fault \in BOOLEAN : submitReview_addReview(c, fault)
    \/ \E c \in Callers, fault \in BOOLEAN : submitReview_updateOrderStatus(c, fault)
    \/ \E c \in Callers, data \in ReviewInputs : LibSubmitReview_begin(c, data)
    \/ \E c \in Callers, fault \in BOOLEAN : LibSubmitReview_addReview(c, fault)
    \/ \E c \in Callers, fault \in BOOLEAN : LibSubmitReview_updateOrderStatus(c, fault)

SpecReviews == InitReviews /\ [][NextReviews]_vars


(***************************************************************************)
(* The admin's status changes on orders that are in the Order Store.       *)
(***************************************************************************)
InitStatus ==
    /\ stock = [v \in Variants |-> MaxStock]
    /\ stock0 = stock
    /\ discounts = [code \in Codes |-> NoDiscount]
    /\ orders = {PlacedOrderOf(0, "u1"), PlacedOrderOf(1, "u2")}
    /\ pendingOrders = {}
    /\ logs = 0
    /\ env = TRUE
    /\ calls = [c \in Callers |-> IdleCall]
    /\ faults = 0
    /\ reviews = {}
    /\ admin = AdminIdle

NextStatus ==
    \/ \E userId \in UserIds, orderId \in OrderIds, status \in Statuses, fault \in BOOLEAN :
          changeOrderStatus(userId, orderId, status, fault)
    \/ \E userId \in UserIds, orderId \in OrderIds, status \in Statuses, fault \in BOOLEAN :
          changeOrderStatusAction(userId, orderId, status, fault)

SpecStatus == InitStatus /\ [][NextStatus]_vars

(***************************************************************************)
(* The Discount Ledger between COD orders with a code, the admin creating  *)
(* a code, and the admin's status changes.                                 *)
(***************************************************************************)
\* COD paperback orders, with and without a code
CodPayloadsWithCode ==
    {p \in WellFormed : p.paymentMethod = "cod" /\ p.variant = "paperback"}

NextLedger ==
    \/ \E c \in Callers, p \in CodPayloadsWithCode, prices \in PriceTables :
          placeOrder_begin(c, p, prices, FALSE)
    \/ \E c \in Callers : placeOrder_getDiscount(c, FALSE)
    \/ \E c \in Callers : placeOrder_addOrder(c, FALSE)
    \/ \E c \in Callers : placeOrder_decreaseStock(c, FALSE)
    \/ \E c \in Callers : placeOrder_incrementDiscountUsage(c, FALSE)
    \/ \E code \in Codes, percent \in PercentInputs : createDiscount(code, percent)
    \/ \E o \in orders, status \in {"dispatched", "cancelled"} :
          changeOrderStatus(o.userId, o.id, status, FALSE)
    \/ \E o \in orders, status \in {"dispatched", "cancelled"} :
          changeOrderStatusAction(o.userId, o.id, status, FALSE)

SpecLedger == InitGateway /\ [][NextLedger]_vars


(***************************************************************************)
(* Orders with a code while codes are created and deleted.                 *)
(***************************************************************************)
NextCodes ==
    \/ \E c \in Callers, p \in CodPayloadsWithCode, prices \in PriceTables :
          placeOrder_begin(c, p, prices, FALSE)
    \/ \E c \in Callers : placeOrder_getDiscount(c, FALSE)
    \/ \E c \in Callers : placeOrder_addOrder(c, FALSE)
    \/ \E c \in Callers : placeOrder_decreaseStock(c, FALSE)
    \/ \E c \in Callers : placeOrder_incrementDiscountUsage(c, FALSE)
    \/ \E code \in Codes, percent \in PercentInputs : createDiscount(code, percent)
    \/ \E code \in Codes : deleteDiscount(code)

SpecCodes == InitGateway /\ [][NextCodes]_vars


(***************************************************************************)
(* processPrepaidOrder alone, for both variants and their prices.          *)
(***************************************************************************)
\* prepaid orders of either variant, without a discount code
PrepaidPayloadsOfVariants ==
    {p \in WellFormed : p.paymentMethod = "prepaid" /\ p.discountCode = ""}

NextPrepaid ==
    \/ \E c \in Callers, p \in PrepaidPayloadsOfVariants, prices \in PriceTables,
          fault \in BOOLEAN : processPrepaidOrder_begin(c, p, prices, fault)
    \/ \E c \in Callers, fault \in BOOLEAN : processPrepaidOrder_addPendingOrder(c, fault)
    \/ \E c \in Callers, outcome \in GatewayOutcomes : processPrepaidOrder_fetch(c, outcome)
    \/ \E c \in Callers, fault \in BOOLEAN : processPrepaidOrder_deletePendingOrder(c, fault)

SpecPrepaid == InitGateway /\ [][NextPrepaid]_vars


(***************************************************************************)
(* Properties.                                                             *)
(***************************************************************************)
AllReturned == \A c \in Callers : calls[c].pc \in {"idle", "done"}

OrdersOf(c) == {o \in orders : o.by = c}

\* an order document that carries the pricing fields of the data model
HasPricing(o) == {"originalPrice", "discountAmount"} \subseteq DOMAIN o

\* a call that came back from a failed payment initiation
InitiationFailed(call) ==
    call.pc = "done" /\ ~call.success /\ call.kind \in {"gateway", "network", "config"}

\* C1: every order in the Order Store carries originalPrice and
\* discountAmount, and its price is originalPrice - discountAmount.
C1_PriceIsOriginalMinusDiscount ==
    \A o \in orders : HasPricing(o) /\ o.price = o.originalPrice - o.discountAmount

\* C2: an order's discountAmount is originalPrice * percent / 100 rounded to
\* the nearest integer, halves up, when its code was found in the ledger, and
\* 0 when no code was supplied or the code was not found.
C2_DiscountIsRoundedPercent ==
    \A o \in orders :
        HasPricing(o) =>
            o.discountAmount =
                IF calls[o.by].found
                THEN RoundHalfUp(o.originalPrice * discounts[o.discountCode].percent, 100)
                ELSE 0

\* the COD calls for a variant, and those of them that succeeded
CodCalls(v) ==
    {c \in Callers : calls[c].valid /\ calls[c].variant = v
                     /\ calls[c].paymentMethod = "cod"}

\* C3: once N concurrent COD placeOrder calls for one variant have all
\* returned success, from an initial stock S >= N, the stock is S - N.
C3_StockIsInitialMinusOrders ==
    \A v \in Variants :
        (/\ AllReturned
         /\ \A c \in CodCalls(v) : calls[c].success
         /\ stock0[v] >= Cardinality(CodCalls(v)))
        => stock[v] = stock0[v] - Cardinality(CodCalls(v))

C3_TwoConcurrentCodOrders ==
    \E v \in Variants :
        /\ AllReturned
        /\ Cardinality(CodCalls(v)) = 2
        /\ \A c \in CodCalls(v) : calls[c].success
        /\ stock[v] = stock0[v] - 2

\* the COD calls that carry a code
CodCallsWith(code) ==
    {c \in Callers : calls[c].op = "placeOrder" /\ calls[c].valid
                     /\ calls[c].paymentMethod = "cod"
                     /\ calls[c].discountCode = code}

\* C4: once N concurrent COD placeOrder calls that redeemed one code (found
\* it in the ledger) have all returned success, the code's usageCount is its
\* value before the calls, 0, plus N.
C4_UsageIsBasePlusRedemptions ==
    \A code \in Codes :
        (/\ AllReturned
         /\ \A c \in CodCallsWith(code) : calls[c].success /\ calls[c].found)
        => discounts[code].usageCount = Cardinality(CodCallsWith(code))

C4_TwoConcurrentRedemptions ==
    \E code \in Codes :
        /\ AllReturned
        /\ Cardinality(CodCallsWith(code)) = 2
        /\ \A c \in CodCallsWith(code) : calls[c].success /\ calls[c].found
        /\ discounts[code].usageCount = 2

\* C5: when processPrepaidOrder has returned a failure of the payment
\* initiation, no PendingOrder is left under its transaction id.
C5_FailedInitiationLeavesNoPendingOrder ==
    \A c \in Callers :
        (calls[c].op = "processPrepaidOrder" /\ InitiationFailed(calls[c]))
        => ~ \E po \in pendingOrders : po.txn = c

\* C6: when a prepaid order placement has returned a failure of the payment
\* initiation, the Order Store holds no order of that submission.
C6_FailedInitiationLeavesNoOrder ==
    \A c \in Callers :
        (calls[c].paymentMethod = "prepaid" /\ InitiationFailed(calls[c]))
        => OrdersOf(c) = {}

\* the fields each schema checks
SchemaChecks(op) ==
    IF op = "placeOrder" THEN {"variant", "name", "phone", "userId", "paymentMethod"}
    ELSE IF op = "libPlaceOrder" THEN {"variant", "name", "userId", "paymentMethod"}
    ELSE {"variant", "name", "userId"}

\* C7: a call whose payload fails its schema returns success:false with the
\* validation message in the step that starts it, and that step writes no
\* order or pending order, leaves stock and discounts as they were and calls
\* neither pricing, a store nor the gateway.
C7_RejectedStep ==
    \A c \in Callers :
        (calls[c].pc = "idle" /\ calls'[c].pc # "idle") =>
            /\ calls'[c].malformed \in SchemaChecks(calls'[c].op)
                  => (calls'[c].pc = "done" /\ calls'[c].kind = "validation")
            /\ calls'[c].kind = "validation" =>
                  /\ ~calls'[c].success
                  /\ calls'[c].effects \subseteq {"log"}
                  /\ UNCHANGED << stock, discounts, orders, pendingOrders, faults >>

LookedUpAbsent(c) ==
    /\ calls[c].op = "placeOrder" /\ calls[c].valid
    /\ calls[c].discountCode # ""
    /\ "discount" \in calls[c].effects
    /\ ~calls[c].found

\* C8: a placeOrder call whose code is not in the ledger stores the order an
\* order without a code would get (discountAmount 0, price = originalPrice),
\* fails only for a reason that fails an order without a code as well, and
\* its usage increment leaves the ledger as it is and returns success.
C8_AbsentCodeStep ==
    /\ \A c \in Callers :
          LookedUpAbsent(c)' =>
              /\ \A o \in OrdersOf(c)' : o.discountAmount = 0 /\ o.price = o.originalPrice
              /\ calls'[c].pc = "done" =>
                    calls'[c].kind \in {"ok", "redirect", "fault", "stock",
                                        "config", "gateway", "network"}
    /\ \A c \in Callers :
          (/\ calls[c].op = "placeOrder" /\ calls[c].pc = "incrementDiscountUsage"
           /\ calls'[c].pc = "done"
           /\ ~discounts[calls[c].discountCode].exists
           /\ faults' = faults)
          => (discounts' = discounts /\ calls'[c].success)

C8_AbsentCodeNeverFailsOrder == [][C8_AbsentCodeStep]_vars

C8_CodOrderWithAbsentCode ==
    \E c \in Callers :
        /\ LookedUpAbsent(c)
        /\ calls[c].paymentMethod = "cod"
        /\ calls[c].pc = "done" /\ calls[c].success
        /\ ~discounts[calls[c].discountCode].exists
        /\ "usage" \in calls[c].effects

\* C9: the COD placeOrder's stock step takes exactly 1 from the ordered
\* variant and nothing from the other, and a successful COD placeOrder adds
\* exactly 1 to a usage counter if and only if its discount was applied.
C9_CodStep ==
    \A c \in Callers :
        /\ (calls[c].pc = "decreaseStock" /\ "stock" \in calls'[c].effects
            /\ calls'[c].kind \notin {"fault", "stock"})
           => stock' = [stock EXCEPT ![calls[c].variant] = @ - 1]
        /\ (calls[c].paymentMethod = "cod" /\ calls[c].pc # "done"
            /\ calls'[c].pc = "done" /\ calls'[c].success)
           => /\ "stock" \in calls'[c].effects
              /\ IF calls[c].found
                 THEN discounts' = [discounts EXCEPT
                                       ![calls[c].discountCode].usageCount = @ + 1]
                 ELSE discounts' = discounts

C9_CodEffectsAreExact == [][C9_CodStep]_vars

\* C10: no step of a prepaid order placement changes a stock quantity or a
\* usageCount.
C10_PrepaidStep ==
    \A c \in Callers :
        (calls'[c] # calls[c] /\ calls'[c].paymentMethod = "prepaid")
        => /\ stock' = stock
           /\ \A code \in Codes :
                 discounts'[code].usageCount = discounts[code].usageCount

C10_PrepaidLeavesLedgersAlone == [][C10_PrepaidStep]_vars

C10_PrepaidPlacedBothWays ==
    /\ \E c \in Callers :
          calls[c].paymentMethod = "prepaid" /\ calls[c].pc = "done" /\ calls[c].success
    /\ \E c \in Callers : calls[c].paymentMethod = "prepaid" /\ InitiationFailed(calls[c])
    /\ stock = stock0

C18_AdminStep ==
    /\ \A variant \in Variants, value \in TypedValues :
          (handleStockChange(variant, value) /\ ParseInt(value).value < 0)
          => (admin'.draft = admin.draft /\ stock' = stock)
    /\ \A v \in Variants : admin'.draft[v] >= 0
    /\ handleSave => (stock' = admin.draft /\ \A v \in Variants : stock'[v] >= 0)

C18_NegativeStockIsRejected == [][C18_AdminStep]_vars

C18_NegativeTypedThenSaved ==
    /\ admin.typed = << "-", "1" >>
    /\ admin.saved
    /\ stock = admin.draft
    /\ stock # stock0

\* C12: no public operation raises to its caller: every failure (a store
\* error, an order that cannot be located, missing gateway configuration)
\* comes back as a returned result.
C12_NoOperationRaises ==
    /\ \A c \in Callers : calls[c].kind # "raised"
    /\ admin.kind # "raised"

\* C20: a network error, an unparsable response or a failure response during
\* payment initiation or status check never raises out of the adapter or the
\* operation that called it; the operation returns success:false.
C20_GatewayStep ==
    \A c \in Callers :
        /\ \A outcome \in {"failure", "throws"} :
              (/\ env
               /\ \/ initiatePhonePePayment(c, outcome)
                  \/ processPrepaidOrder_fetch(c, outcome)
                  \/ checkPhonePeStatus(c, outcome))
              => /\ calls'[c].kind # "raised"
                 /\ ~calls'[c].success
                 /\ calls'[c].pc \in {"done", "deletePendingOrder"}
        /\ \A fault \in BOOLEAN :
              processPrepaidOrder_deletePendingOrder(c, fault)
              => (calls'[c].pc = "done" /\ calls'[c].kind # "raised" /\ ~calls'[c].success)

C20_GatewayErrorsAreReturned == [][C20_GatewayStep]_vars

C20_EveryGatewayErrorSeen ==
    /\ \E c \in Callers : calls[c].op = "checkPhonePeStatus" /\ calls[c].kind = "network"
    /\ \E c \in Callers : calls[c].op # "checkPhonePeStatus" /\ calls[c].pc = "done"
                          /\ calls[c].kind \in {"gateway", "network"}

ReviewOps == {"submitReview", "libSubmitReview"}

\* C13: a submitReview call that has returned, for an (orderId, userId) pair
\* no order exists for, has returned success:false.
C13_ReviewOfMissingOrderFails ==
    \A c \in Callers :
        (/\ calls[c].op \in ReviewOps /\ calls[c].pc = "done"
         /\ ~getOrderById(orders, calls[c].userId, calls[c].orderId))
        => ~calls[c].success

C13_BothReviewsOfMissingOrder ==
    /\ \E c \in Callers : calls[c].op = "submitReview" /\ calls[c].kind = "notfound"
    /\ \E c \in Callers : calls[c].op = "libSubmitReview" /\ calls[c].kind = "notfound"
                          /\ calls[c].orderId \notin {o.id : o \in orders}

\* C14: the step in which submitReview returns success leaves the review in
\* the Review Store and the order delivered and reviewed, whatever its status
\* was.
C14_ReviewStep ==
    \A c \in Callers :
        (calls'[c].op \in ReviewOps /\ calls[c].pc # "done"
         /\ calls'[c].pc = "done" /\ calls'[c].success)
        => /\ \E r \in reviews' : r.id = c /\ r.orderId = calls'[c].orderId
                                  /\ r.userId = calls'[c].userId
           /\ \E o \in orders' : /\ o.id = calls'[c].orderId /\ o.userId = calls'[c].userId
                                 /\ o.status = "delivered" /\ o.hasReview
           /\ \A o \in orders' : (o.id = calls'[c].orderId /\ o.userId = calls'[c].userId)
                                 => (o.status = "delivered" /\ o.hasReview)

C14_SuccessfulReviewDelivers == [][C14_ReviewStep]_vars

C14_ReviewedBothWays ==
    /\ \E c \in Callers : calls[c].op = "submitReview" /\ calls[c].success
    /\ \E c \in Callers : calls[c].op = "libSubmitReview" /\ calls[c].success
    /\ \A o \in orders : o.status = "delivered" /\ o.hasReview

\* C15: the Review Store holds at most one review per order.
C15_OneReviewPerOrder ==
    \A orderId \in OrderIds : Cardinality({r \in reviews : r.orderId = orderId}) <= 1

\* C16: changeOrderStatus on an existing order succeeds and stores the new
\* status, for every current status and every new status, the same one
\* included; nothing else of the order changes.
C16_StatusStep ==
    \A userId \in UserIds, orderId \in OrderIds, status \in Statuses :
        \A o \in orders :
            (/\ o.userId = userId /\ o.id = orderId
             /\ \/ changeOrderStatus(userId, orderId, status, FALSE)
                \/ changeOrderStatusAction(userId, orderId, status, FALSE))
            => /\ admin'.success /\ admin'.kind = "ok"
               /\ [o EXCEPT !.status = status] \in orders'

C16_AnyStatusToAnyStatus == [][C16_StatusStep]_vars

C16_StatusesChangedBothWays ==
    /\ admin.op = "changeOrderStatus" /\ admin.success
    /\ \E o \in orders : o.id = 0 /\ o.status = "delivered"
    /\ \E o \in orders : o.id = 1 /\ o.status = "cancelled"

\* the step in which a successful COD order that redeemed code returns
Redeems(c, code) ==
    /\ calls[c].op = "placeOrder" /\ calls[c].paymentMethod = "cod"
    /\ calls[c].discountCode = code /\ calls[c].found
    /\ calls[c].pc # "done" /\ calls'[c].pc = "done" /\ calls'[c].success

\* C19: no step lowers a usageCount, a step changes it by one at most, the
\* return of a successful order that redeemed the code raises it by exactly
\* one, and a status change, to cancelled or to any other status, leaves
\* every usageCount and every stock quantity as they were.
C19_LedgerStep ==
    /\ \A code \in Codes :
          /\ discounts'[code].usageCount >= discounts[code].usageCount
          /\ discounts'[code].usageCount <= discounts[code].usageCount + 1
          /\ \A c \in Callers :
                Redeems(c, code)
                => discounts'[code].usageCount = discounts[code].usageCount + 1
    /\ (\E o \in orders : [o EXCEPT !.status = "cancelled"] \in orders' \ orders
                          \/ [o EXCEPT !.status = "dispatched"] \in orders' \ orders)
       => (stock' = stock /\ discounts' = discounts)

C19_UsageOnlyGrows == [][C19_LedgerStep]_vars

C19_RedeemedThenCancelled ==
    \E o \in orders :
        /\ o.discountCode = "SAVE10" /\ o.discountAmount > 0
        /\ o.status = "cancelled"
        /\ calls[o.by].pc = "done" /\ calls[o.by].success
        /\ discounts["SAVE10"].usageCount >= 1
        /\ stock[o.variant] < stock0[o.variant]

\* C17: every stored order with discountAmount > 0 carries a non-empty
\* discountCode, its placeOrder call found that code in the ledger, which it
\* does only while the code is there; and a code leaving the ledger changes no
\* stored order.
C17_CodeStep ==
    /\ \A o \in orders' :
          (HasPricing(o) /\ o.discountAmount > 0)
          => (o.discountCode # "" /\ o.discountCode = calls'[o.by].discountCode
              /\ calls'[o.by].found)
    /\ \A c \in Callers :
          (~calls[c].found /\ calls'[c].found) => discounts[calls'[c].discountCode].exists
    /\ \A code \in Codes :
          (discounts[code].exists /\ ~discounts'[code].exists) => orders' = orders

C17_DiscountedOrderHadItsCode == [][C17_CodeStep]_vars

C17_CodeDeletedAfterUse ==
    \E o \in orders :
        /\ o.discountAmount > 0
        /\ ~discounts[o.discountCode].exists
        /\ calls[o.by].pc = "done" /\ calls[o.by].success

\* the placeOrder calls, of either generation, that have returned a failure
FailedPlacements ==
    {c \in Callers : /\ calls[c].op \in {"placeOrder", "libPlaceOrder"}
                     /\ calls[c].pc = "done"
                     /\ ~calls[c].success}

\* C21: whenever a placeOrder call has returned success:false, whatever the
\* cause, the Order Store holds no order created by that call.
C21_FailedPlaceOrderLeavesNoOrder ==
    \A c \in FailedPlacements : OrdersOf(c) = {}

\* the COD orders of a variant that the Order Store holds
CodOrders(v) == {o \in orders : o.variant = v /\ o.paymentMethod = "cod"}

\* C22: with no admin overwrite of the stock, once every call has returned,
\* the number of stored COD orders of a variant equals the amount its stock
\* went down by, also when the second of the two store writes failed.
C22_CodOrdersMatchStockDecrements ==
    AllReturned =>
        \A v \in Variants : Cardinality(CodOrders(v)) = stock0[v] - stock[v]

\* the pending order under the transaction id of a payload, with the price
\* whose 100-fold is the payload's amount
PendingOrderFor(store, payload) ==
    \E po \in store : /\ po.txn = payload.merchantTransactionId
                      /\ payload.amount = po.price * 100

\* C23: processPrepaidOrder writes the PendingOrder before it calls the
\* gateway: when its payload goes out, and when it returns success with the
\* redirect URL, the store holds a PendingOrder under the transaction id of the
\* payload, with the price whose 100-fold is the amount sent.
C23_PrepaidStep ==
    \A c \in Callers :
        LET call  == calls[c]
            after == calls'[c]
        IN  after.op = "processPrepaidOrder" =>
               /\ after.payload # call.payload
                     => (/\ after.payload # NoPayload
                         /\ PendingOrderFor(pendingOrders, after.payload))
               /\ (call.pc # "done" /\ after.pc = "done" /\ after.success)
                     => (/\ after.kind = "redirect"
                         /\ after.payload # NoPayload
                         /\ PendingOrderFor(pendingOrders', after.payload))

C23_PendingOrderPrecedesGateway == [][C23_PrepaidStep]_vars

C23_RedirectedAndCleanedUp ==
    \E c, d \in Callers :
        /\ calls[c].op = "processPrepaidOrder" /\ calls[c].pc = "done"
        /\ calls[c].success /\ calls[c].kind = "redirect"
        /\ calls[c].variant = "hardcover"
        /\ calls[c].payload.amount > 0
        /\ PendingOrderFor(pendingOrders, calls[c].payload)
        /\ calls[d].variant = "paperback"
        /\ calls[d].op = "processPrepaidOrder" /\ calls[d].pc = "done"
        /\ ~calls[d].success /\ calls[d].kind = "gateway"
        /\ ~PendingOrderFor(pendingOrders, calls[d].payload)

\* the submitReview calls, of either generation, that have returned a failure
FailedReviews ==
    {c \in Callers : calls[c].op \in ReviewOps /\ calls[c].pc = "done" /\ ~calls[c].success}

\* C24: every review in the Review Store refers to an order that exists for
\* the review's userId, and a submitReview call that has returned success:false
\* has left no review.
C24_EveryReviewHasItsOrder ==
    /\ \A r \in reviews : getOrderById(orders, r.userId, r.orderId)
    /\ \A c \in FailedReviews : ~ \E r \in reviews : r.id = c

====
